---- MODULE Spec2Model ----
(***************************************************************************)
(* Model of link_state::calculator<id_type, cost_type, max_edges,          *)
(* max_nodes> (include/link_state/calculator.hpp) and of link_state::node  *)
(* (include/link_state/node.hpp), instantiated as                          *)
(* calculator<uint8_t, uint8_t, 2, 3>.                                     *)
(*                                                                         *)
(* A node is a record with the fields of struct node.  edges and           *)
(* edge_costs are kept as sequences of length edge_count: the calculator   *)
(* never reads an entry at or beyond edge_count.  Index j of the code is   *)
(* index j + 1 of these sequences.  The storage array is a function on     *)
(* 0 .. max_nodes - 1.  Identifier 0 is the reserved "no node" value of    *)
(* node.hpp (default id, edge list terminator, unset previous_node), so    *)
(* callers pass identifiers from 1 upwards.                                *)
(*                                                                         *)
(* Every member function is one action.  A call that never returns, or a   *)
(* call whose behaviour the language leaves undefined, ends the run: pc    *)
(* leaves "idle" and no further call is made.                              *)
(***************************************************************************)
EXTENDS Integers, Sequences, FiniteSets, TLC

\* ------------------------------------------------------------------------
\* Template arguments and the constant the constructor derives from them.

max_nodes == 3

max_edges == 2

\* sizeof(cost_type) = 1: temp is shifted left by 8 and or-ed with 0xFF once.
max_distance == 255

\* cost_type is uint8_t: a value stored into a cost_type is reduced mod 2^8.
CostModulus == max_distance + 1

\* uint8_t current_node of cleanup wraps mod 2^8.
Uint8Modulus == 256

\* ------------------------------------------------------------------------
\* Bounds of the model.

\* Identifiers handed to the calculator are 1 .. MaxId; more than max_nodes,
\* so that the storage fills up.
MaxId == 4

Ids == 1 .. MaxId

\* Identifiers of the nodes of the topologies SpecRun starts from.
MaxRunId == 3

RunIds == 1 .. MaxRunId

\* Edge costs the callers use; max_distance is the highest cost a cost_type
\* holds.
Costs == {1, 5, max_distance}

\* The source identifier passed to the constructor.
SourceIds == {1}

VARIABLES
    nodes,       \* std::array<node, max_nodes> nodes
    node_count,  \* size_t node_count
    source_id,   \* the constructor's argument (history)
    pc,          \* "idle", or why the last call ended the run
    fresh,       \* "stale" | "setup" | "run": what the routing fields reflect
    last         \* the last call made: operation, argument, return value

vars == <<nodes, node_count, source_id, pc, fresh, last>>

\* ------------------------------------------------------------------------
\* struct node

\* node(): id 0 and the member initializers.
DefaultNode ==
    [id |-> 0, edges |-> <<>>, edge_costs |-> <<>>, edge_count |-> 0,
     previous_node |-> 0, distance |-> 0, shortest_path_known |-> FALSE]

\* node(id, edges, edgecosts): counts the edges in front of the first 0;
\* es is that part of the array, so every entry of es is non-zero.
MkNode(id, es, cs) ==
    [id |-> id, edges |-> es, edge_costs |-> cs, edge_count |-> Len(es),
     previous_node |-> 0, distance |-> 0, shortest_path_known |-> FALSE]

\* A node whose routing fields the caller has filled in (the fields are
\* public and insert_replace copies the whole node).
WithRouting(n, p, d, k) ==
    [n EXCEPT !.previous_node = p, !.distance = d, !.shortest_path_known = k]

Slots == 0 .. (max_nodes - 1)

\* ------------------------------------------------------------------------
\* calculator::get_index_by_id

RECURSIVE IndexScan(_, _, _, _)
IndexScan(ns, cnt, id, i) ==
    IF i >= cnt THEN cnt
    ELSE IF ns[i].id = id THEN i
    ELSE IndexScan(ns, cnt, id, i + 1)

get_index_by_id(ns, cnt, id) == IndexScan(ns, cnt, id, 0)

\* ------------------------------------------------------------------------
\* calculator::insert_replace, for a store inside the array.

\* insert_replace that never looks for a stored node with the identifier.
insert_replace_AlwaysAppends(ns, cnt, node) ==
    [nodes |-> [ns EXCEPT ![cnt] = node], node_count |-> cnt + 1]

insert_replace(ns, cnt, node) ==
    LET existing_node == get_index_by_id(ns, cnt, node.id)
    IN  [nodes |-> [ns EXCEPT ![existing_node] = node],
         node_count |-> IF existing_node = cnt THEN cnt + 1 ELSE cnt]

\* ------------------------------------------------------------------------
\* calculator::remove

RECURSIVE ShiftDown(_, _, _)
\* for (i = node_index; i < node_count; i++) nodes[i] = nodes[i + 1];
ShiftDown(ns, cnt, i) ==
    IF i >= cnt THEN ns
    ELSE ShiftDown([ns EXCEPT ![i] = ns[i + 1]], cnt, i + 1)

\* remove that does not spare position 0.
remove_AlsoSource(ns, cnt, id) ==
    LET node_index == get_index_by_id(ns, cnt, id)
    IN  IF node_index # cnt
        THEN [nodes |-> [ShiftDown(ns, cnt - 1, node_index)
                            EXCEPT ![cnt - 1] = DefaultNode],
              node_count |-> cnt - 1,
              ret |-> TRUE]
        ELSE [nodes |-> ns, node_count |-> cnt, ret |-> FALSE]

\* remove that does not reset the vacated last slot.
remove_LeavesLastSlot(ns, cnt, id) ==
    LET node_index == get_index_by_id(ns, cnt, id)
    IN  IF node_index # cnt /\ node_index # 0
        THEN [nodes |-> ShiftDown(ns, cnt - 1, node_index),
              node_count |-> cnt - 1,
              ret |-> TRUE]
        ELSE [nodes |-> ns, node_count |-> cnt, ret |-> FALSE]

remove(ns, cnt, id) ==
    LET node_index == get_index_by_id(ns, cnt, id)
    IN  IF node_index # cnt /\ node_index # 0
        THEN [nodes |-> [ShiftDown(ns, cnt - 1, node_index)
                            EXCEPT ![cnt - 1] = DefaultNode],
              node_count |-> cnt - 1,
              ret |-> TRUE]
        ELSE [nodes |-> ns, node_count |-> cnt, ret |-> FALSE]

\* ------------------------------------------------------------------------
\* calculator::setup

RECURSIVE SeedScan_TakesLeast(_, _, _)
\* The inner loop of setup without its break.
SeedScan_TakesLeast(n, sid, j) ==
    IF j > n.edge_count THEN n
    ELSE IF n.edges[j] = sid /\ n.edge_costs[j] < n.distance
         THEN SeedScan_TakesLeast(
                [n EXCEPT !.distance = n.edge_costs[j], !.previous_node = sid],
                sid, j + 1)
         ELSE SeedScan_TakesLeast(n, sid, j + 1)

RECURSIVE SeedScan(_, _, _)
\* The inner loop of setup over the edges of one node, from edge j on.
SeedScan(n, sid, j) ==
    IF j > n.edge_count THEN n
    ELSE IF n.edges[j] = sid /\ n.edge_costs[j] < n.distance
         THEN [n EXCEPT !.distance = n.edge_costs[j], !.previous_node = sid]
         ELSE SeedScan(n, sid, j + 1)

\* setup that does not clear shortest_path_known of a node.
SetupNode_KeepsFinalized(n, sid) ==
    SeedScan([n EXCEPT !.distance = max_distance], sid, 1)

SetupNode(n, sid) ==
    SeedScan([n EXCEPT !.shortest_path_known = FALSE,
                       !.distance = max_distance], sid, 1)

setup(ns, cnt) ==
    [i \in Slots |->
        IF i = 0 THEN [ns[0] EXCEPT !.shortest_path_known = TRUE]
        ELSE IF i < cnt THEN SetupNode(ns[i], ns[0].id)
        ELSE ns[i]]

\* ------------------------------------------------------------------------
\* calculator::loop

RECURSIVE ScanMin_IncludesFinalized(_, _, _, _, _)
\* The selection scan without the test of shortest_path_known.
ScanMin_IncludesFinalized(ns, cnt, i, min_distance, min_distance_node) ==
    IF i >= cnt
    THEN [min_distance |-> min_distance, min_distance_node |-> min_distance_node]
    ELSE IF ns[i].distance < min_distance
         THEN ScanMin_IncludesFinalized(ns, cnt, i + 1, ns[i].distance, i)
         ELSE ScanMin_IncludesFinalized(ns, cnt, i + 1, min_distance,
                                        min_distance_node)

RECURSIVE ScanMin(_, _, _, _, _)
\* The selection scan: the first index with the least distance among the
\* nodes whose shortest path is not known.
ScanMin(ns, cnt, i, min_distance, min_distance_node) ==
    IF i >= cnt
    THEN [min_distance |-> min_distance, min_distance_node |-> min_distance_node]
    ELSE IF ns[i].shortest_path_known
         THEN ScanMin(ns, cnt, i + 1, min_distance, min_distance_node)
         ELSE IF ns[i].distance < min_distance
              THEN ScanMin(ns, cnt, i + 1, ns[i].distance, i)
              ELSE ScanMin(ns, cnt, i + 1, min_distance, min_distance_node)

RECURSIVE RelaxEdges_KeepsPredecessor(_, _, _, _)
\* The edge loop without the store into previous_node.
RelaxEdges_KeepsPredecessor(ns, cnt, cur, e) ==
    IF e > ns[cur].edge_count THEN ns
    ELSE
        LET neighbour_index == get_index_by_id(ns, cnt, ns[cur].edges[e])
            sum == ns[cur].distance + ns[cur].edge_costs[e]
        IN  IF neighbour_index = cnt
            THEN RelaxEdges_KeepsPredecessor(ns, cnt, cur, e + 1)
            ELSE IF ns[neighbour_index].shortest_path_known
            THEN RelaxEdges_KeepsPredecessor(ns, cnt, cur, e + 1)
            ELSE IF sum < ns[neighbour_index].distance
            THEN RelaxEdges_KeepsPredecessor(
                    [ns EXCEPT ![neighbour_index].distance = sum % CostModulus],
                    cnt, cur, e + 1)
            ELSE RelaxEdges_KeepsPredecessor(ns, cnt, cur, e + 1)

RECURSIVE RelaxEdges_AlwaysStores(_, _, _, _)
\* The edge loop without the comparison with the neighbour's distance.
RelaxEdges_AlwaysStores(ns, cnt, cur, e) ==
    IF e > ns[cur].edge_count THEN ns
    ELSE
        LET neighbour_index == get_index_by_id(ns, cnt, ns[cur].edges[e])
            sum == ns[cur].distance + ns[cur].edge_costs[e]
        IN  IF neighbour_index = cnt
            THEN RelaxEdges_AlwaysStores(ns, cnt, cur, e + 1)
            ELSE IF ns[neighbour_index].shortest_path_known
            THEN RelaxEdges_AlwaysStores(ns, cnt, cur, e + 1)
            ELSE RelaxEdges_AlwaysStores(
                    [ns EXCEPT ![neighbour_index].distance = sum % CostModulus,
                               ![neighbour_index].previous_node = ns[cur].id],
                    cnt, cur, e + 1)

RECURSIVE RelaxEdges(_, _, _, _)
\* The edge loop of loop() for the selected node cur, from edge e on.  The
\* sum is formed in int (integral promotion of uint8_t) and stored into a
\* cost_type.
RelaxEdges(ns, cnt, cur, e) ==
    IF e > ns[cur].edge_count THEN ns
    ELSE
        LET neighbour_index == get_index_by_id(ns, cnt, ns[cur].edges[e])
            sum == ns[cur].distance + ns[cur].edge_costs[e]
        IN  IF neighbour_index = cnt
            THEN RelaxEdges(ns, cnt, cur, e + 1)
            ELSE IF ns[neighbour_index].shortest_path_known
            THEN RelaxEdges(ns, cnt, cur, e + 1)
            ELSE IF sum < ns[neighbour_index].distance
            THEN RelaxEdges(
                    [ns EXCEPT ![neighbour_index].distance = sum % CostModulus,
                               ![neighbour_index].previous_node = ns[cur].id],
                    cnt, cur, e + 1)
            ELSE RelaxEdges(ns, cnt, cur, e + 1)

\* One pass of the outer for loop: "abort" when the least distance is
\* max_distance, otherwise the nodes after relaxing and marking the node.
LoopPass(ns, cnt) ==
    LET sel == ScanMin(ns, cnt, 1, max_distance, 0)
    IN  IF sel.min_distance = max_distance
        THEN [abort |-> TRUE, nodes |-> ns]
        ELSE [abort |-> FALSE,
              nodes |-> [RelaxEdges(ns, cnt, sel.min_distance_node, 1)
                            EXCEPT ![sel.min_distance_node].shortest_path_known = TRUE]]

RECURSIVE LoopFrom_OnePassShort(_, _, _)
\* The outer for loop with one pass less.
LoopFrom_OnePassShort(ns, cnt, definitive_node_count) ==
    IF definitive_node_count + 1 >= cnt THEN ns
    ELSE LET p == LoopPass(ns, cnt)
         IN  IF p.abort THEN ns
             ELSE LoopFrom_OnePassShort(p.nodes, cnt, definitive_node_count + 1)

RECURSIVE LoopFrom(_, _, _)
LoopFrom(ns, cnt, definitive_node_count) ==
    IF definitive_node_count >= cnt THEN ns
    ELSE LET p == LoopPass(ns, cnt)
         IN  IF p.abort THEN ns
             ELSE LoopFrom(p.nodes, cnt, definitive_node_count + 1)

loop(ns, cnt) == LoopFrom(ns, cnt, 1)

\* ------------------------------------------------------------------------
\* calculator::get_next_hop

RECURSIVE HopWalk(_, _, _, _)
\* The while loop, with current_hop a copy of a node and trail the indices of
\* the nodes loaded into current_hop so far.  The walk reads the storage and
\* never writes it, so a walk that has loaded more than cnt nodes has loaded
\* one of them twice and repeats for ever: returns = FALSE.
HopWalk(ns, cnt, current_hop, trail) ==
    IF current_hop.previous_node = ns[0].id
    THEN [ret |-> current_hop.id, trail |-> trail, returns |-> TRUE]
    ELSE
        LET node_index == get_index_by_id(ns, cnt, current_hop.previous_node)
        IN  IF current_hop.distance = max_distance
            THEN [ret |-> 0, trail |-> trail, returns |-> TRUE]
            ELSE IF ~current_hop.shortest_path_known
            THEN [ret |-> 0, trail |-> trail, returns |-> TRUE]
            ELSE IF current_hop.previous_node = 0
            THEN [ret |-> 0, trail |-> trail, returns |-> TRUE]
            ELSE IF node_index = cnt
            THEN [ret |-> 0, trail |-> trail, returns |-> TRUE]
            ELSE IF Len(trail) > cnt
            THEN [ret |-> 0, trail |-> trail, returns |-> FALSE]
            ELSE HopWalk(ns, cnt, ns[node_index], Append(trail, node_index))

\* get_next_hop that returns the destination without walking its chain.
get_next_hop_SkipsWalk(ns, cnt, id) ==
    LET node_index == get_index_by_id(ns, cnt, id)
    IN  IF node_index = cnt
        THEN [ret |-> 0, trail |-> <<>>, returns |-> TRUE]
        ELSE [ret |-> ns[node_index].id, trail |-> <<node_index>>, returns |-> TRUE]

get_next_hop(ns, cnt, id) ==
    LET node_index == get_index_by_id(ns, cnt, id)
    IN  IF node_index = cnt
        THEN [ret |-> 0, trail |-> <<>>, returns |-> TRUE]
        ELSE HopWalk(ns, cnt, ns[node_index], <<node_index>>)

\* ------------------------------------------------------------------------
\* calculator::cleanup

RECURSIVE CleanupScan(_, _, _)
\* The for loop over uint8_t current_node.  When remove() fails the storage
\* is unchanged and current_node-- followed by current_node++ returns to the
\* same index (0 - 1 wraps to 255, 255 + 1 wraps to 0), so the loop repeats
\* for ever: returns = FALSE.
CleanupScan(ns, cnt, current_node) ==
    IF current_node >= cnt
    THEN [nodes |-> ns, node_count |-> cnt, returns |-> TRUE]
    ELSE IF ns[current_node].distance = max_distance
    THEN LET r == remove(ns, cnt, ns[current_node].id)
             next == (((current_node + Uint8Modulus - 1) % Uint8Modulus) + 1)
                        % Uint8Modulus
         IN  IF r.ret
             THEN CleanupScan(r.nodes, r.node_count, next)
             ELSE [nodes |-> ns, node_count |-> cnt, returns |-> FALSE]
    ELSE CleanupScan(ns, cnt, (current_node + 1) % Uint8Modulus)

cleanup(ns, cnt, calculate) ==
    IF calculate
    THEN CleanupScan(loop(setup(ns, cnt), cnt), cnt, 0)
    ELSE CleanupScan(ns, cnt, 0)

\* ------------------------------------------------------------------------
\* The calls.

\* A call: the operation, its identifier, node and flag arguments (0,
\* DefaultNode and FALSE when it has none) and what it returned.
Call(op, id, node, flag, ret) ==
    [op |-> op, id |-> id, node |-> node, flag |-> flag, ret |-> ret]

\* calculator(source_id)
Init ==
    /\ source_id \in SourceIds
    /\ nodes = [i \in Slots |->
                   IF i = 0 THEN [DefaultNode EXCEPT !.id = source_id]
                   ELSE DefaultNode]
    /\ node_count = 1
    /\ pc = "idle"
    /\ fresh = "stale"
    /\ last = Call("construct", source_id, DefaultNode, FALSE, "void")

\* insert_replace(node).  With node_count = max_nodes and an identifier that
\* is not stored, nodes[existing_node] = node stores at nodes[max_nodes],
\* outside the array: undefined behaviour.  The store lands on the members
\* declared behind the array, node_count first, so node_count is left with
\* any value; what the calculator does afterwards is not modelled.
Upsert(node) ==
    /\ pc = "idle"
    /\ LET existing_node == get_index_by_id(nodes, node_count, node.id)
       IN  IF existing_node = node_count /\ node_count = max_nodes
           THEN /\ node_count' \in 0 .. (max_nodes + 1)
                /\ nodes' = nodes
                /\ pc' = "undefined"
           ELSE LET r == insert_replace(nodes, node_count, node)
                IN  /\ nodes' = r.nodes
                    /\ node_count' = r.node_count
                    /\ pc' = pc
    /\ fresh' = "stale"
    /\ last' = Call("insert_replace", node.id, node, FALSE, "void")
    /\ UNCHANGED source_id

\* remove(id)
Remove(id) ==
    /\ pc = "idle"
    /\ LET r == remove(nodes, node_count, id)
       IN  /\ nodes' = r.nodes
           /\ node_count' = r.node_count
           /\ fresh' = IF r.ret THEN "stale" ELSE fresh
           /\ last' = Call("remove", id, DefaultNode, FALSE,
                        IF r.ret THEN "true" ELSE "false")
    /\ UNCHANGED <<source_id, pc>>

\* setup()
Setup ==
    /\ pc = "idle"
    /\ nodes' = setup(nodes, node_count)
    /\ fresh' = "setup"
    /\ last' = Call("setup", 0, DefaultNode, FALSE, "void")
    /\ UNCHANGED <<node_count, source_id, pc>>

\* loop()
Loop ==
    /\ pc = "idle"
    /\ nodes' = loop(nodes, node_count)
    /\ fresh' = IF fresh = "setup" THEN "run" ELSE "stale"
    /\ last' = Call("loop", 0, DefaultNode, FALSE, "void")
    /\ UNCHANGED <<node_count, source_id, pc>>

\* cleanup(calculate)
Cleanup(calculate) ==
    /\ pc = "idle"
    /\ LET r == cleanup(nodes, node_count, calculate)
       IN  /\ nodes' = r.nodes
           /\ node_count' = r.node_count
           /\ pc' = IF r.returns THEN pc ELSE "hung"
    /\ fresh' = "stale"
    /\ last' = Call("cleanup", 0, DefaultNode, calculate, "void")
    /\ UNCHANGED source_id

\* ------------------------------------------------------------------------
\* The nodes callers insert.

\* The node the constructor node(id, edges, edgecosts) builds from a list of
\* (neighbour, cost) pairs.
NodeOf(id, el) ==
    MkNode(id, [j \in 1 .. Len(el) |-> el[j][1]], [j \in 1 .. Len(el) |-> el[j][2]])

\* Neighbour lists of the callers of Spec: no link, a link to the source at
\* cost 5, or a link to the source and a link to a further node at cost 1.
EdgeMenu ==
    {<<>>}
    \cup {<< <<s, 5>> >> : s \in SourceIds}
    \cup {<< <<s, 1>>, <<o, 1>> >> : s \in SourceIds, o \in Ids \ SourceIds}

NodeInputs == {NodeOf(id, el) : id \in Ids, el \in EdgeMenu}

\* Nodes without links whose routing fields the caller has filled in, the
\* nodes node(id) builds, and nodes other than the source that list the
\* source at cost 5, or the source and the next identifier at cost 1.
RoutedInputs ==
    {WithRouting(NodeOf(id, <<>>), p, d, TRUE) :
        id \in Ids, p \in Ids, d \in {1, max_distance}}
    \cup {NodeOf(id, <<>>) : id \in Ids}
    \cup {NodeOf(id, << <<s, 5>> >>) : id \in Ids \ SourceIds, s \in SourceIds}
    \cup {NodeOf(id, << <<s, 1>>, <<id + 1, 1>> >>) :
            id \in Ids \ (SourceIds \cup {MaxId}), s \in SourceIds}

Next ==
    \/ \E node \in NodeInputs : Upsert(node)
    \/ \E id \in Ids : Remove(id)
    \/ Setup
    \/ Loop
    \/ \E calculate \in BOOLEAN : Cleanup(calculate)

Spec == Init /\ [][Next]_vars

\* The calls of Spec, with callers that store nodes with routing fields.
NextRouted ==
    \/ \E node \in RoutedInputs : Upsert(node)
    \/ \E id \in Ids : Remove(id)
    \/ Setup
    \/ Loop
    \/ \E calculate \in BOOLEAN : Cleanup(calculate)

SpecRouted == Init /\ [][NextRouted]_vars

\* ------------------------------------------------------------------------
\* Routing runs over every topology.

RECURSIVE SeqsUpTo(_, _)
\* The sequences over S of length at most n.
SeqsUpTo(S, n) ==
    IF n = 0 THEN {<<>>}
    ELSE LET shorter == SeqsUpTo(S, n - 1)
         IN  shorter \cup {Append(q, x) : q \in shorter, x \in S}

\* Every neighbour list of up to max_edges (neighbour, cost) pairs.
RunLists == SeqsUpTo(RunIds \X Costs, max_edges)

\* The identifiers of the nodes stored behind the source, in storage order.
RunArrangements(sid) ==
    {q \in SeqsUpTo(RunIds \ {sid}, max_nodes - 1) :
        \A a, b \in 1 .. Len(q) : a # b => q[a] # q[b]}

\* The calculator after calculator(source_id) and one insert_replace for each
\* of up to max_nodes - 1 distinct nodes, each built by node(id, edges,
\* edgecosts) from any neighbour list.
InitRun ==
    /\ source_id \in SourceIds
    /\ \E q \in RunArrangements(source_id) :
       \E els \in [1 .. Len(q) -> RunLists] :
          /\ nodes = [i \in Slots |->
                        IF i = 0 THEN [DefaultNode EXCEPT !.id = source_id]
                        ELSE IF i <= Len(q) THEN NodeOf(q[i], els[i])
                        ELSE DefaultNode]
          /\ node_count = Len(q) + 1
    /\ pc = "idle"
    /\ fresh = "stale"
    /\ last = Call("construct", source_id, DefaultNode, FALSE, "void")

NextRun ==
    \/ \E id \in RunIds : Remove(id)
    \/ Setup
    \/ Loop
    \/ \E calculate \in BOOLEAN : Cleanup(calculate)

SpecRun == InitRun /\ [][NextRun]_vars

\* ------------------------------------------------------------------------
\* Claims.

\* get_next_hop(id) in the current state.
NextHop(id) == get_next_hop(nodes, node_count, id)

\* A node the walk must not trust: unreachable, not finalized, without a
\* predecessor, or with a predecessor that is not stored.
Untrusted(n) ==
    \/ n.distance = max_distance
    \/ ~n.shortest_path_known
    \/ n.previous_node = 0
    \/ get_index_by_id(nodes, node_count, n.previous_node) = node_count

\* C2: in every reachable state get_next_hop(id) returns 0 whenever a node
\* visited on the predecessor walk, the destination included, has distance
\* max_distance, is not finalized, has predecessor 0 or has a predecessor
\* that is not stored.
C2_NoHopThroughUntrustedNode ==
    pc = "idle" =>
        \A id \in Ids :
            (/\ NextHop(id).returns
             /\ \E k \in 1 .. Len(NextHop(id).trail) :
                    Untrusted(nodes[NextHop(id).trail[k]]))
            => NextHop(id).ret = 0

\* C4: in every reachable state get_next_hop(id) returns for every id, after
\* visiting at most node_count nodes.
C4_NextHopTerminates ==
    pc = "idle" =>
        \A id \in Ids :
            NextHop(id).returns /\ Len(NextHop(id).trail) <= node_count

\* The position of id in the storage, node_count when it is not stored.
IndexOf(id) == get_index_by_id(nodes, node_count, id)

\* C3: insert_replace of an identifier that is not stored, called with
\* node_count = max_nodes, reports a capacity error and leaves node_count and
\* every slot as they were, so that node_count never exceeds max_nodes.
C3_UpsertAtCapacityRejected ==
    [][(/\ last'.op = "insert_replace"
        /\ node_count = max_nodes
        /\ get_index_by_id(nodes, node_count, last'.id) = node_count)
       => (/\ last'.ret = "capacity_exceeded"
           /\ nodes' = nodes
           /\ node_count' = node_count
           /\ node_count' <= max_nodes)]_vars

\* C9: in every reachable state node_count >= 1 and position 0 holds the
\* node with the identifier given to the constructor.
C9_SourceAtPositionZero ==
    node_count >= 1 /\ nodes[0].id = source_id

\* C8: remove(id) of a stored identifier other than the source returns true,
\* lowers node_count by one, leaves no stored node with that identifier,
\* keeps the nodes in front of the removed position where they are, moves
\* the nodes behind it down by one with their fields unchanged, and resets
\* the old last position to the default node.
C8_RemoveCompacts ==
    [][(/\ last'.op = "remove"
        /\ last'.id # source_id
        /\ IndexOf(last'.id) < node_count)
       => LET p == IndexOf(last'.id)
          IN  /\ last'.ret = "true"
              /\ node_count' = node_count - 1
              /\ \A i \in 0 .. (node_count' - 1) : nodes'[i].id # last'.id
              /\ \A i \in 0 .. (p - 1) : nodes'[i] = nodes[i]
              /\ \A i \in (p + 1) .. (node_count - 1) : nodes'[i - 1] = nodes[i]
              /\ nodes'[node_count - 1] = DefaultNode
              /\ \A i \in node_count .. (max_nodes - 1) : nodes'[i] = nodes[i]]_vars

\* A remove() took a node out of a full storage from in front of another
\* node, which moved down.
C8_Witness ==
    /\ last.op = "remove"
    /\ last.ret = "true"
    /\ node_count = max_nodes - 1
    /\ last.id > nodes[node_count - 1].id
    /\ nodes[node_count - 1].edge_count > 0

NoPath == max_distance * max_nodes + 1

Least(S) == CHOOSE x \in S : \A y \in S : x <= y

\* The costs at which the node at position i lists the node at position j.
ListedCosts(ns, i, j) ==
    {ns[i].edge_costs[e] : e \in {k \in 1 .. ns[i].edge_count :
                                    ns[i].edges[k] = ns[j].id}}

\* The cost of the link between the stored nodes at positions i and j: the
\* least cost at which either of them lists the other.
LinkCost(ns, i, j) ==
    LET cs == ListedCosts(ns, i, j) \cup ListedCosts(ns, j, i)
    IN  IF cs = {} THEN NoPath ELSE Least(cs)

RECURSIVE PathCosts(_, _, _, _)
\* The least cost of a path of at most k links from position 0 to every
\* stored position, starting from the costs d of shorter paths.
PathCosts(ns, cnt, d, k) ==
    IF k = 0 THEN d
    ELSE PathCosts(ns, cnt,
            [v \in 0 .. (cnt - 1) |->
                Least({d[v]} \cup
                      {IF d[u] + LinkCost(ns, u, v) < NoPath
                       THEN d[u] + LinkCost(ns, u, v) ELSE NoPath :
                           u \in 0 .. (cnt - 1)})],
            k - 1)

\* The least cost of a path from the source to position i over stored nodes
\* and listed links, NoPath when there is none.
ShortestCost(ns, cnt, i) ==
    PathCosts(ns, cnt, [v \in 0 .. (cnt - 1) |-> IF v = 0 THEN 0 ELSE NoPath],
              cnt)[i]

\* C1: after setup() directly followed by loop(), every finalized node other
\* than the source has the least cost of a path from the source over stored
\* nodes and listed links as its distance.
C1_FinalizedDistanceIsShortest ==
    fresh = "run" =>
        \A i \in 1 .. (node_count - 1) :
            nodes[i].shortest_path_known
            => nodes[i].distance = ShortestCost(nodes, node_count, i)

\* C5: after cleanup(true) no stored node other than the source has distance
\* max_distance, every node the call removed had no path from the source,
\* and every node with such a path is still stored.
C5_PruneRemovesExactlyUnreachable ==
    [][(last'.op = "cleanup" /\ last'.flag /\ pc' = "idle")
       => /\ \A i \in 1 .. (node_count' - 1) : nodes'[i].distance # max_distance
          /\ \A i \in 1 .. (node_count - 1) :
                get_index_by_id(nodes', node_count', nodes[i].id) = node_count'
                => ShortestCost(nodes, node_count, i) = NoPath
          /\ \A i \in 1 .. (node_count - 1) :
                ShortestCost(nodes, node_count, i) < NoPath
                => get_index_by_id(nodes', node_count', nodes[i].id) < node_count']_vars

\* The position of the predecessor of the node at position i.
PredIndex(i) == get_index_by_id(nodes, node_count, nodes[i].previous_node)

RECURSIVE ChainOf(_, _)
\* The positions on the predecessor chain of position i, from i up to the
\* node in front of the source, following at most k predecessors.
ChainOf(i, k) ==
    IF k = 0 \/ nodes[i].previous_node = nodes[0].id \/ PredIndex(i) = node_count
    THEN {i}
    ELSE {i} \cup ChainOf(PredIndex(i), k - 1)

\* The identifiers of the nodes on the chain of i whose predecessor is the
\* source.
FirstHops(i) ==
    {nodes[j].id : j \in {c \in ChainOf(i, node_count) :
                            nodes[c].previous_node = nodes[0].id}}

\* The (neighbour, cost) pairs the node at position i lists.
ListedPairs(i) ==
    {<<nodes[i].edges[e], nodes[i].edge_costs[e]>> : e \in 1 .. nodes[i].edge_count}

\* The example: source A, B at position b, C at position c, links A-B at
\* cost 1, B-C at cost 1 and A-C at cost 5, each listed by B and C.
IsExample(b, c) ==
    /\ node_count = 3
    /\ b # c
    /\ ListedPairs(b) = {<<nodes[0].id, 1>>, <<nodes[c].id, 1>>}
    /\ ListedPairs(c) = {<<nodes[b].id, 1>>, <<nodes[0].id, 5>>}

Rebuilt ==
    [i \in Slots |->
        IF i < node_count
        THEN [nodes[i] EXCEPT !.previous_node = 0, !.distance = 0,
                              !.shortest_path_known = FALSE]
        ELSE nodes[i]]

\* The second calculator after setup() and loop().
Recomputed == loop(setup(Rebuilt, node_count), node_count)

\* C7: after setup() followed by loop(), every node other than the source
\* has the predecessor, distance and finalized flag it has in any other
\* calculator holding the same topology, whatever calls came before.
C7_RunDependsOnTopologyOnly ==
    fresh = "run" =>
        \A i \in 1 .. (node_count - 1) :
            /\ nodes[i].previous_node = Recomputed[i].previous_node
            /\ nodes[i].distance = Recomputed[i].distance
            /\ nodes[i].shortest_path_known = Recomputed[i].shortest_path_known

\* C7 as amended: the distance and the finalized flag of every node other
\* than the source, and the predecessor of every finalized one, depend on
\* the topology only.
C7_FinalizedRoutingDependsOnTopologyOnly ==
    fresh = "run" =>
        \A i \in 1 .. (node_count - 1) :
            /\ nodes[i].distance = Recomputed[i].distance
            /\ nodes[i].shortest_path_known = Recomputed[i].shortest_path_known
            /\ nodes[i].shortest_path_known
               => nodes[i].previous_node = Recomputed[i].previous_node

\* A run has ended in a calculator whose earlier calls left a predecessor
\* that a newly built calculator does not have, next to a finalized node.
C7_Witness ==
    /\ fresh = "run"
    /\ \E i \in 1 .. (node_count - 1) :
          nodes[i].previous_node # Recomputed[i].previous_node
    /\ \E i \in 1 .. (node_count - 1) : nodes[i].shortest_path_known

\* ------------------------------------------------------------------------
\* Failing removals, the self route and the slots behind the stored nodes.

\* C11: remove(id) with id the source identifier, or with an id that no
\* stored node has, returns false and leaves node_count and every slot
\* unchanged.
C11_RemoveOfSourceOrUnknownFails ==
    [][(/\ last'.op = "remove"
        /\ \/ last'.id = source_id
           \/ IndexOf(last'.id) = node_count)
       => (/\ last'.ret = "false"
           /\ nodes' = nodes
           /\ node_count' = node_count)]_vars

\* A remove() of the source was refused on a full storage.
C11_Witness ==
    /\ last.op = "remove"
    /\ last.id = source_id
    /\ last.ret = "false"
    /\ node_count = max_nodes
    /\ nodes[0].id = source_id

\* A stored node other than the source that setup() and loop() left without
\* a route.
Unreachable(i) ==
    /\ i >= 1
    /\ i < node_count
    /\ nodes[i].distance = max_distance

\* C12: get_next_hop(source identifier) returns a result of its own: not
\* the result get_next_hop returns for an identifier that is not stored, and
\* not the result it returns for a stored node with distance max_distance.
C12_SelfRouteIsNotAnError ==
    pc = "idle" =>
        /\ NextHop(source_id).returns
        /\ \A id \in Ids :
              IndexOf(id) = node_count
              => NextHop(source_id).ret # NextHop(id).ret
        /\ \A i \in Slots :
              Unreachable(i)
              => NextHop(source_id).ret # NextHop(nodes[i].id).ret

\* C13: as long as no insert_replace was made beyond the capacity, every
\* slot at a position from node_count on holds the default node: identifier
\* 0, no edges, predecessor 0, not finalized.
C13_SlotsBehindCountAreDefault ==
    pc # "undefined" =>
        \A p \in Slots :
            p >= node_count
            => /\ nodes[p].id = 0
               /\ nodes[p].edge_count = 0
               /\ nodes[p].previous_node = 0
               /\ ~nodes[p].shortest_path_known

\* A remove() took the only node behind the source out of the storage.
C13_Witness ==
    /\ last.op = "remove"
    /\ last.ret = "true"
    /\ node_count = 1
    /\ pc = "idle"

\* ------------------------------------------------------------------------
\* setup() and loop() step by step.

\* The indices at which node n lists the identifier sid at a cost below
\* max_distance.
SeedEdges(n, sid) ==
    {e \in 1 .. n.edge_count :
        n.edges[e] = sid /\ n.edge_costs[e] < max_distance}

\* C14: setup() leaves the source finalized with its distance unchanged and
\* every other stored node not finalized; a node that lists the source at a
\* cost below max_distance gets the cost of the first such entry as distance
\* and the source as predecessor; every other node gets distance
\* max_distance.
C14_SetupSeedsDirectNeighbours ==
    [][last'.op = "setup"
       => /\ nodes'[0].shortest_path_known
          /\ nodes'[0].distance = nodes[0].distance
          /\ \A i \in 1 .. (node_count - 1) :
                /\ ~nodes'[i].shortest_path_known
                /\ IF SeedEdges(nodes[i], nodes[0].id) # {}
                   THEN /\ nodes'[i].distance =
                              nodes[i].edge_costs[Least(SeedEdges(nodes[i], nodes[0].id))]
                        /\ nodes'[i].previous_node = nodes[0].id
                   ELSE nodes'[i].distance = max_distance]_vars

\* setup() has seeded a node that lists the source first at max_distance and
\* then at cost 5, next to a node that lists only the other node.
C14_Witness ==
    /\ last.op = "setup"
    /\ node_count = 3
    /\ \E i, k \in 1 .. 2 :
          /\ i # k
          /\ nodes[i].edges = <<nodes[0].id, nodes[0].id>>
          /\ nodes[i].edge_costs = <<max_distance, 5>>
          /\ nodes[i].distance = 5
          /\ nodes[k].edges = <<nodes[i].id>>
          /\ nodes[k].distance = max_distance

\* The storage after the edge loop of loop() has handled the first m edges
\* of the selected node cur.
RelaxPrefix(ns, cnt, cur, m) ==
    [RelaxEdges([ns EXCEPT ![cur].edge_count = m], cnt, cur, 1)
        EXCEPT ![cur].edge_count = ns[cur].edge_count]

\* The storages one pass of loop() goes through: after each edge of the
\* selected node, and after the node is marked.
PassSteps(ns, cnt) ==
    LET cur == ScanMin(ns, cnt, 1, max_distance, 0).min_distance_node
    IN  [m \in 1 .. ns[cur].edge_count |-> RelaxPrefix(ns, cnt, cur, m)]
        \o <<LoopPass(ns, cnt).nodes>>

RECURSIVE RunSteps(_, _, _)
\* The storages loop() goes through from pass definitive_node_count on,
\* the storage it starts from first.
RunSteps(ns, cnt, definitive_node_count) ==
    IF definitive_node_count >= cnt THEN <<ns>>
    ELSE LET p == LoopPass(ns, cnt)
         IN  IF p.abort THEN <<ns>>
             ELSE <<ns>> \o PassSteps(ns, cnt)
                  \o Tail(RunSteps(p.nodes, cnt, definitive_node_count + 1))

RECURSIVE LoopPicks(_, _, _)
\* The positions loop() selects and marks, in the order of its passes.
LoopPicks(ns, cnt, definitive_node_count) ==
    IF definitive_node_count >= cnt THEN <<>>
    ELSE LET p == LoopPass(ns, cnt)
         IN  IF p.abort THEN <<>>
             ELSE <<ScanMin(ns, cnt, 1, max_distance, 0).min_distance_node>>
                  \o LoopPicks(p.nodes, cnt, definitive_node_count + 1)

\* A step of a run moves no node other than the source backwards.
Forward(a, b, cnt) ==
    \A i \in 1 .. (cnt - 1) :
        /\ b[i].distance <= a[i].distance
        /\ a[i].shortest_path_known => b[i].shortest_path_known
        /\ a[i].shortest_path_known
           => /\ b[i].distance = a[i].distance
              /\ b[i].previous_node = a[i].previous_node

\* C15: in a loop() that follows setup(), no step raises the distance of a
\* node other than the source, none clears its shortest_path_known, and none
\* changes the distance or the predecessor of a node that is finalized.
C15_NodesOnlyMoveForward ==
    [][(last'.op = "loop" /\ fresh = "setup")
       => LET steps == RunSteps(nodes, node_count, 1)
          IN  /\ steps[Len(steps)] = nodes'
              /\ \A s \in 1 .. (Len(steps) - 1) :
                    Forward(steps[s], steps[s + 1], node_count)]_vars

\* A run has finalized a node below the distance setup() had seeded it with
\* from its own entry for the source, with another node as predecessor.
C15_Witness ==
    /\ fresh = "run"
    /\ \E i \in 1 .. (node_count - 1) :
          /\ nodes[i].shortest_path_known
          /\ nodes[i].previous_node # nodes[0].id
          /\ SeedEdges(nodes[i], nodes[0].id) # {}
          /\ nodes[i].distance <
                nodes[i].edge_costs[Least(SeedEdges(nodes[i], nodes[0].id))]

\* C16: loop() makes at most node_count - 1 passes; each pass marks one node
\* other than the source that was not finalized, no node twice; no other
\* node becomes finalized.
C16_LoopFinalizesEachNodeOnce ==
    [][last'.op = "loop"
       => LET picks == LoopPicks(nodes, node_count, 1)
          IN  /\ Len(picks) <= node_count - 1
              /\ \A a \in 1 .. Len(picks) :
                    /\ picks[a] >= 1
                    /\ picks[a] < node_count
                    /\ ~nodes[picks[a]].shortest_path_known
                    /\ nodes'[picks[a]].shortest_path_known
                    /\ \A b \in 1 .. Len(picks) : a # b => picks[a] # picks[b]
              /\ \A i \in Slots :
                    nodes'[i].shortest_path_known # nodes[i].shortest_path_known
                    => \E a \in 1 .. Len(picks) : picks[a] = i]_vars

\* A loop() has finalized every node of a full storage.
C16_Witness ==
    /\ last.op = "loop"
    /\ node_count = max_nodes
    /\ \A i \in 1 .. (node_count - 1) :
          nodes[i].shortest_path_known /\ nodes[i].distance < max_distance

\* C17: after setup() directly followed by loop(), every stored node other
\* than the source is finalized with a distance below max_distance, or not
\* finalized with distance max_distance.
C17_NoTentativeNodeAfterRun ==
    fresh = "run" =>
        \A i \in 1 .. (node_count - 1) :
            \/ nodes[i].shortest_path_known /\ nodes[i].distance < max_distance
            \/ ~nodes[i].shortest_path_known /\ nodes[i].distance = max_distance

\* A run on a full storage has ended early: one node is finalized, the
\* other has no route.
C17_Witness ==
    /\ fresh = "run"
    /\ node_count = max_nodes
    /\ nodes[1].shortest_path_known
    /\ nodes[1].distance < max_distance
    /\ ~nodes[2].shortest_path_known
    /\ nodes[2].distance = max_distance

\* ------------------------------------------------------------------------
\* cleanup(false) and the identifiers of the stored nodes.

RECURSIVE KeptNodes(_, _, _)
\* The stored nodes from position i on that are the source or have a
\* distance other than max_distance, in storage order.
KeptNodes(ns, cnt, i) ==
    IF i >= cnt THEN <<>>
    ELSE IF i = 0 \/ ns[i].distance # max_distance
         THEN <<ns[i]>> \o KeptNodes(ns, cnt, i + 1)
         ELSE KeptNodes(ns, cnt, i + 1)

\* C18: cleanup(false) returns; afterwards the storage holds the source and
\* the nodes that had a distance other than max_distance, with their fields
\* unchanged and in the order they had, and no other node.
C18_PruneWithoutRecompute ==
    [][(last'.op = "cleanup" /\ ~last'.flag)
       => LET kept == KeptNodes(nodes, node_count, 0)
          IN  /\ pc' = "idle"
              /\ node_count' = Len(kept)
              /\ \A j \in 1 .. Len(kept) : nodes'[j - 1] = kept[j]]_vars

\* C19: as long as no insert_replace was made beyond the capacity, no two
\* stored positions hold the same identifier, and get_index_by_id(id) is
\* the one position that holds id, or node_count when none does.
C19_StoredIdentifiersAreUnique ==
    pc # "undefined" =>
        /\ \A i, j \in 0 .. (node_count - 1) :
              nodes[i].id = nodes[j].id => i = j
        /\ \A id \in 0 .. MaxId :
              IF \E i \in 0 .. (node_count - 1) : nodes[i].id = id
              THEN /\ IndexOf(id) < node_count
                   /\ nodes[IndexOf(id)].id = id
              ELSE IndexOf(id) = node_count

\* An insert_replace() on a full storage has replaced the node at position 1
\* by a node without edges.
C19_Witness ==
    /\ last.op = "insert_replace"
    /\ pc = "idle"
    /\ node_count = max_nodes
    /\ IndexOf(last.id) = 1
    /\ nodes[1].edge_count = 0

\* ------------------------------------------------------------------------
\* The predecessors a run leaves.

\* The pass of the run, counted from 1, that marked position i; 0 when none
\* did.
PassOf(picks, i) ==
    IF \E a \in 1 .. Len(picks) : picks[a] = i
    THEN CHOOSE a \in 1 .. Len(picks) : picks[a] = i
    ELSE 0

\* Node n of storage ns lists the identifier id at a cost that, added to
\* the distance d, gives the distance total.
ListsAt(n, id, d, total) ==
    \E e \in 1 .. n.edge_count :
        n.edges[e] = id /\ total = d + n.edge_costs[e]

\* The walk over the predecessors of id in storage ns reaches the source
\* and loads no node twice.
ReachesSource(ns, cnt, id) ==
    LET w == get_next_hop(ns, cnt, id)
    IN  /\ w.returns
        /\ w.ret # 0
        /\ \A a, b \in 1 .. Len(w.trail) : w.trail[a] = w.trail[b] => a = b

\* The node at position v has a predecessor other than the source that the
\* run finalized in an earlier pass, that lists v, and whose distance and
\* cost for v add up to the distance of v.
ViaEarlierNode(ns, cnt, picks, v) ==
    \E u \in 1 .. (cnt - 1) :
        /\ ns[u].id = ns[v].previous_node
        /\ ns[u].shortest_path_known
        /\ PassOf(picks, u) >= 1
        /\ PassOf(picks, u) < PassOf(picks, v)
        /\ ListsAt(ns[u], ns[v].id, ns[u].distance, ns[v].distance)

\* C20: after setup() followed by loop(), every finalized node v other than
\* the source has as predecessor the source, with an entry for the source in
\* its own list, or a node finalized before v that lists v; the distance of
\* v is the distance of the predecessor plus the cost of that entry; the
\* walk over the predecessors of v reaches the source without a repeat.
C20_PredecessorsFormTree ==
    [][(last'.op = "loop" /\ fresh = "setup")
       => LET picks == LoopPicks(nodes, node_count, 1)
          IN  \A v \in 1 .. (node_count - 1) :
                nodes'[v].shortest_path_known
                => /\ \/ /\ nodes'[v].previous_node = nodes'[0].id
                         /\ ListsAt(nodes'[v], nodes'[0].id, nodes'[0].distance,
                                    nodes'[v].distance)
                      \/ ViaEarlierNode(nodes', node_count, picks, v)
                   /\ ReachesSource(nodes', node_count, nodes'[v].id)]_vars

\* C20 as amended: a finalized node whose predecessor is the source has the
\* cost of an entry for the source in its own list as distance, whatever
\* the distance field of the source holds.
C20_PredecessorsFormTreeFromSeeds ==
    [][(last'.op = "loop" /\ fresh = "setup")
       => LET picks == LoopPicks(nodes, node_count, 1)
          IN  \A v \in 1 .. (node_count - 1) :
                nodes'[v].shortest_path_known
                => /\ \/ /\ nodes'[v].previous_node = nodes'[0].id
                         /\ ListsAt(nodes'[v], nodes'[0].id, 0,
                                    nodes'[v].distance)
                      \/ ViaEarlierNode(nodes', node_count, picks, v)
                   /\ ReachesSource(nodes', node_count, nodes'[v].id)]_vars

\* A run has ended in a calculator whose source carries a distance other
\* than 0, with a node finalized through the source and a node finalized
\* through that node.
C20_Witness ==
    /\ fresh = "run"
    /\ nodes[0].distance # 0
    /\ \E u, v \in 1 .. (node_count - 1) :
          /\ nodes[u].shortest_path_known
          /\ nodes[u].previous_node = nodes[0].id
          /\ nodes[v].shortest_path_known
          /\ nodes[v].previous_node = nodes[u].id

====
